---- MODULE Spec2Model ----
(***************************************************************************)
(* Stuntify API (app.py): a FastAPI service with two endpoints, GET / and  *)
(* POST /predict-stunting, over four lazily loaded joblib artifacts kept   *)
(* in module-level globals.                                                *)
(*                                                                         *)
(* Spec      requests handled one at a time, each handler one action.      *)
(* SpecRace  requests handled by several worker threads (FastAPI runs a    *)
(*           plain `def` endpoint in a thread pool), one action per        *)
(*           statement of predict() / load_models() that reads or writes   *)
(*           a global.                                                     *)
(***************************************************************************)
EXTENDS Integers, Sequences, FiniteSets, TLC

\* ------------------------------------------------------------------ bounds

\* umur, tinggi and berat are drawn from 0..MaxNum
MaxNum == 1

\* worker threads of the thread pool that runs predict()
NumThreads == 2

\* --------------------------------------------------------------- constants

None == "None"

\* the four artifact files, in the order load_models() reads them
BEST_MODEL == "best_model.joblib"
SCALER == "scaler.joblib"
JK_ENCODER == "Jenis Kelamin_encoder.joblib"
STUNTING_ENCODER == "Stunting_encoder.joblib"

ArtifactFiles == {BEST_MODEL, SCALER, JK_ENCODER, STUNTING_ENCODER}

\* values a request may carry in jenis_kelamin: the two documented ones and
\* one string the encoder was not trained on
Genders == {"Laki-laki", "Perempuan", "Other"}

Numerics == 0..MaxNum

\* class ConditionInput
ConditionInput == [jenis_kelamin : Genders, umur : Numerics,
                   tinggi : Numerics, berat : Numerics]

\* the requests of the specifications that keep two requests in the state at
\* once (SpecIdem, SpecRace): every gender, one value for the three numerics
DiagonalInput ==
    {d \in ConditionInput : d.tinggi = d.umur /\ d.berat = d.umur}

Threads == 1..NumThreads

\* --------------------------------------------------------------- artifacts
\* The deserialized objects are opaque to app.py; what it relies on is their
\* transform / predict / inverse_transform interface.

\* joblib.load(path): the object stored in the file
JoblibLoad(path) ==
    CASE path = BEST_MODEL -> "classifier"
      [] path = SCALER -> "standard_scaler"
      [] path = JK_ENCODER -> "gender_encoder"
      [] path = STUNTING_ENCODER -> "label_encoder"

Raise(exc) == [ok |-> FALSE, exc |-> exc, val |-> <<>>]
Return(v) == [ok |-> TRUE, exc |-> "", val |-> v]

\* the gender encoder's classes, in code order (code = position - 1)
JkClasses == <<"Laki-laki", "Perempuan">>

\* the label encoder's classes, in code order
StuntingClasses == <<"normal", "severely stunted", "stunted", "tinggi">>

\* the scaler's fitted parameters, one per column (umur, tinggi, berat)
ScalerMean == <<1, 2, 1>>
ScalerScale == <<2, 5, 4>>

\* the classifier's weights, one per feature
ModelCoef == <<1, 2, 3, 5>>

\* jk_encoder.transform([s])[0]
JkTransform(enc, s) ==
    IF enc = None THEN Raise("AttributeError")
    ELSE IF \A i \in DOMAIN JkClasses : JkClasses[i] # s THEN Raise("ValueError")
    ELSE Return((CHOOSE i \in DOMAIN JkClasses : JkClasses[i] = s) - 1)

\* scaler.transform([[a, b, c]])[0]: (x - mean) / scale, column by column,
\* kept to one decimal digit in fixed point
ScalerTransform(sc, row) ==
    IF sc = None THEN Raise("AttributeError")
    ELSE Return([i \in 1..3 |->
                   ((row[i] - ScalerMean[i]) * 10) \div ScalerScale[i]])

\* model.predict([features])[0]
ModelPredict(clf, features) ==
    IF clf = None THEN Raise("AttributeError")
    ELSE Return((ModelCoef[1] * features[1] + ModelCoef[2] * features[2]
                 + ModelCoef[3] * features[3] + ModelCoef[4] * features[4])
                % Len(StuntingClasses))

\* stunting_encoder.inverse_transform([code])[0]
InverseTransform(enc, code) ==
    IF enc = None THEN Raise("AttributeError")
    ELSE IF code + 1 \notin DOMAIN StuntingClasses THEN Raise("ValueError")
    ELSE Return(StuntingClasses[code + 1])

\* ------------------------------------------------------------------- state

VARIABLES
    model, scaler, jk_encoder, stunting_encoder, \* the module globals
    files,      \* the artifact files joblib.load can currently deserialize
    last,       \* Spec: the request handled last and its response
    memo,       \* Spec: one earlier predict() response, kept for comparison
    pc, req, loc, resp  \* SpecRace: each worker thread's position and locals

globals == <<model, scaler, jk_encoder, stunting_encoder>>
seqvars == <<last, memo>>
thrvars == <<pc, req, loc, resp>>
vars == <<model, scaler, jk_encoder, stunting_encoder, files, last, memo,
          pc, req, loc, resp>>

\* --------------------------------------------------------------- handlers

\* a load_models() that loads on every call
NeedsLoadAlways(g) == TRUE

\* line 49: if model is None
NeedsLoad(g) == g[1] = None

\* load_models(), called with the globals g = <<model, scaler, jk_encoder,
\* stunting_encoder>> and the loadable files f. Each joblib.load result is
\* assigned to its global before the next load starts; an exception leaves
\* the assignments already made in place. io: the files it tried to read.
LoadModels(g, f) ==
    IF ~NeedsLoad(g) THEN [ret |-> TRUE, g |-> g, io |-> {}]
    ELSE IF BEST_MODEL \notin f
    THEN [ret |-> FALSE, g |-> g, io |-> {BEST_MODEL}]
    ELSE LET g1 == [g EXCEPT ![1] = JoblibLoad(BEST_MODEL)] IN
    IF SCALER \notin f
    THEN [ret |-> FALSE, g |-> g1, io |-> {BEST_MODEL, SCALER}]
    ELSE LET g2 == [g1 EXCEPT ![2] = JoblibLoad(SCALER)] IN
    IF JK_ENCODER \notin f
    THEN [ret |-> FALSE, g |-> g2, io |-> {BEST_MODEL, SCALER, JK_ENCODER}]
    ELSE LET g3 == [g2 EXCEPT ![3] = JoblibLoad(JK_ENCODER)] IN
    IF STUNTING_ENCODER \notin f
    THEN [ret |-> FALSE, g |-> g3, io |-> ArtifactFiles]
    ELSE [ret |-> TRUE, g |-> [g3 EXCEPT ![4] = JoblibLoad(STUNTING_ENCODER)],
          io |-> ArtifactFiles]

\* raise HTTPException(status_code=500, ...) of predict()
LoadFailed == [status |-> 500, body |-> "Model gagal dimuat di server. Cek logs."]

\* an except clause that reports a server error
ExceptResponse500(exc) ==
    [status |-> 500, body |-> "Terjadi error saat prediksi: {str(e)}"]

\* the two except clauses of predict(): both answer 400
ExceptResponse(exc) ==
    IF exc = "KeyError"
    THEN [status |-> 400, body |-> "Key JSON tidak ditemukan: {str(e)}."]
    ELSE [status |-> 400, body |-> "Terjadi error saat prediksi: {str(e)}"]

\* a feature row with scaled tinggi before scaled umur
FinalFeaturesSwapped(jk_encoded, scaled_features) ==
    <<jk_encoded, scaled_features[2], scaled_features[1], scaled_features[3]>>

\* final_features_list of predict()
FinalFeatures(jk_encoded, scaled_features) ==
    <<jk_encoded, scaled_features[1], scaled_features[2], scaled_features[3]>>

\* numerical_features of predict()
NumericalFeatures(data) == <<data.umur, data.tinggi, data.berat>>

\* a pipeline that answers from the previous successful response
PipelineStale(data, g) ==
    IF last.op = "predict" /\ last.response.status = 200
    THEN last.response
    ELSE LET jk == JkTransform(g[3], data.jenis_kelamin)
             sf == ScalerTransform(g[2], NumericalFeatures(data))
             pe == ModelPredict(g[1], FinalFeatures(jk.val, sf.val))
             ps == InverseTransform(g[4], pe.val)
         IN IF jk.ok /\ sf.ok /\ pe.ok /\ ps.ok
            THEN [status |-> 200, body |-> ps.val]
            ELSE ExceptResponse("Exception")

\* the try block of predict(), against the globals g
Pipeline(data, g) ==
    LET jk == JkTransform(g[3], data.jenis_kelamin) IN
    IF ~jk.ok THEN ExceptResponse(jk.exc)
    ELSE LET sf == ScalerTransform(g[2], NumericalFeatures(data)) IN
    IF ~sf.ok THEN ExceptResponse(sf.exc)
    ELSE LET pe == ModelPredict(g[1], FinalFeatures(jk.val, sf.val)) IN
    IF ~pe.ok THEN ExceptResponse(pe.exc)
    ELSE LET ps == InverseTransform(g[4], pe.val) IN
    IF ~ps.ok THEN ExceptResponse(ps.exc)
    ELSE [status |-> 200, body |-> ps.val]

\* predict(data) as a whole: the globals it leaves and its response
PredictHandler(data, g, f) ==
    LET lm == LoadModels(g, f) IN
    [g |-> lm.g, loaded |-> lm.ret, io |-> lm.io,
     response |-> IF ~lm.ret THEN LoadFailed ELSE Pipeline(data, lm.g)]

\* a home() that reports the service down until the classifier is loaded
HomeResponseUnloaded ==
    [status |-> IF model = None THEN 503 ELSE 200, body |-> "online"]

\* home(): a constant document
HomeResponse == [status |-> 200, body |-> "online"]

NoData == [jenis_kelamin |-> "", umur |-> 0, tinggi |-> 0, berat |-> 0]
NoLocals == [jk_encoded |-> 0, scaled_features |-> <<0, 0, 0>>,
             prediction_encoded |-> 0]
NoResponse == [status |-> 0, body |-> ""]
NoMemo == [data |-> NoData, g |-> <<None, None, None, None>>, io |-> {},
           response |-> NoResponse]

Init ==
    /\ model = None
    /\ scaler = None
    /\ jk_encoder = None
    /\ stunting_encoder = None
    /\ files \in SUBSET ArtifactFiles
    /\ last = [op |-> "none", data |-> NoData, loaded |-> FALSE, io |-> {},
               response |-> NoResponse]
    /\ memo = NoMemo
    /\ pc = [t \in Threads |-> "idle"]
    /\ req = [t \in Threads |-> NoData]
    /\ loc = [t \in Threads |-> NoLocals]
    /\ resp = [t \in Threads |-> NoResponse]

\* an operator installs or removes one artifact file
SetFiles ==
    /\ \E a \in ArtifactFiles :
          files' = IF a \in files THEN files \ {a} ELSE files \cup {a}
    /\ UNCHANGED <<globals, seqvars, thrvars>>

\* GET /
Home ==
    /\ last' = [op |-> "home", data |-> NoData, loaded |-> FALSE, io |-> {},
                response |-> HomeResponse]
    /\ UNCHANGED <<globals, files, thrvars>>

\* POST /predict-stunting with body data
Predict(data) ==
    LET h == PredictHandler(data, globals, files) IN
    /\ model' = h.g[1]
    /\ scaler' = h.g[2]
    /\ jk_encoder' = h.g[3]
    /\ stunting_encoder' = h.g[4]
    /\ last' = [op |-> "predict", data |-> data, loaded |-> h.loaded,
                io |-> h.io, response |-> h.response]
    /\ UNCHANGED <<files, thrvars>>

\* the observer keeps, or not, the response just given by a predict() whose
\* load_models() returned True, with the bundle it was computed against
Remember ==
    \E keep \in BOOLEAN :
        memo' = IF keep /\ last'.loaded
                THEN [data |-> last'.data, g |-> globals', io |-> last'.io,
                      response |-> last'.response]
                ELSE memo

Next ==
    \/ SetFiles
    \/ Home /\ UNCHANGED memo
    \/ \E data \in ConditionInput : Predict(data) /\ UNCHANGED memo

Spec == Init /\ [][Next]_vars

NextIdem ==
    \/ SetFiles
    \/ Home /\ UNCHANGED memo
    \/ \E data \in DiagonalInput : Predict(data) /\ Remember

SpecIdem == Init /\ [][NextIdem]_vars

\* ----------------------------------------------------------- worker threads
\* predict() statement by statement. pc[t] names the source line thread t
\* executes next. A joblib.load and the assignment of its result are one
\* step: the files do not change while the threads run, so the value read is
\* the value assigned whenever the assignment happens.

Goto(t, line) == pc' = [pc EXCEPT ![t] = line]

\* a statement raised: the handler answers r and ends
Answer(t, r) ==
    /\ resp' = [resp EXCEPT ![t] = r]
    /\ Goto(t, "done")

\* the thread pool hands a request to an idle worker
Receive(t, data) ==
    /\ pc[t] = "idle"
    /\ req' = [req EXCEPT ![t] = data]
    /\ Goto(t, "l49")
    /\ UNCHANGED <<globals, files, seqvars, loc, resp>>

\* line 49: if model is None
LoadCheck(t) ==
    /\ pc[t] = "l49"
    /\ IF NeedsLoad(globals) THEN Goto(t, "l53") ELSE Goto(t, "l115")
    /\ UNCHANGED <<globals, files, seqvars, req, loc, resp>>

\* line 53: model = joblib.load(...)
LoadModel(t) ==
    /\ pc[t] = "l53"
    /\ IF BEST_MODEL \in files
       THEN /\ model' = JoblibLoad(BEST_MODEL)
            /\ Goto(t, "l56")
            /\ UNCHANGED resp
       ELSE /\ Answer(t, LoadFailed)
            /\ UNCHANGED model
    /\ UNCHANGED <<scaler, jk_encoder, stunting_encoder, files, seqvars, req, loc>>

\* line 56: scaler = joblib.load(...)
LoadScaler(t) ==
    /\ pc[t] = "l56"
    /\ IF SCALER \in files
       THEN /\ scaler' = JoblibLoad(SCALER)
            /\ Goto(t, "l59")
            /\ UNCHANGED resp
       ELSE /\ Answer(t, LoadFailed)
            /\ UNCHANGED scaler
    /\ UNCHANGED <<model, jk_encoder, stunting_encoder, files, seqvars, req, loc>>

\* line 59: jk_encoder = joblib.load(...)
LoadJkEncoder(t) ==
    /\ pc[t] = "l59"
    /\ IF JK_ENCODER \in files
       THEN /\ jk_encoder' = JoblibLoad(JK_ENCODER)
            /\ Goto(t, "l62")
            /\ UNCHANGED resp
       ELSE /\ Answer(t, LoadFailed)
            /\ UNCHANGED jk_encoder
    /\ UNCHANGED <<model, scaler, stunting_encoder, files, seqvars, req, loc>>

\* line 62: stunting_encoder = joblib.load(...), then return True
LoadStuntingEncoder(t) ==
    /\ pc[t] = "l62"
    /\ IF STUNTING_ENCODER \in files
       THEN /\ stunting_encoder' = JoblibLoad(STUNTING_ENCODER)
            /\ Goto(t, "l115")
            /\ UNCHANGED resp
       ELSE /\ Answer(t, LoadFailed)
            /\ UNCHANGED stunting_encoder
    /\ UNCHANGED <<model, scaler, jk_encoder, files, seqvars, req, loc>>

\* line 115: jk_encoded = jk_encoder.transform([jk_string])[0]
Encode(t) ==
    /\ pc[t] = "l115"
    /\ LET r == JkTransform(jk_encoder, req[t].jenis_kelamin) IN
       IF r.ok
       THEN /\ loc' = [loc EXCEPT ![t].jk_encoded = r.val]
            /\ Goto(t, "l120")
            /\ UNCHANGED resp
       ELSE /\ Answer(t, ExceptResponse(r.exc))
            /\ UNCHANGED loc
    /\ UNCHANGED <<globals, files, seqvars, req>>

\* line 120: scaled_features = scaler.transform(numerical_features)
Scale(t) ==
    /\ pc[t] = "l120"
    /\ LET r == ScalerTransform(scaler, NumericalFeatures(req[t])) IN
       IF r.ok
       THEN /\ loc' = [loc EXCEPT ![t].scaled_features = r.val]
            /\ Goto(t, "l133")
            /\ UNCHANGED resp
       ELSE /\ Answer(t, ExceptResponse(r.exc))
            /\ UNCHANGED loc
    /\ UNCHANGED <<globals, files, seqvars, req>>

\* line 133: prediction_encoded = model.predict(final_features)
Classify(t) ==
    /\ pc[t] = "l133"
    /\ LET r == ModelPredict(model, FinalFeatures(loc[t].jk_encoded,
                                                  loc[t].scaled_features)) IN
       IF r.ok
       THEN /\ loc' = [loc EXCEPT ![t].prediction_encoded = r.val]
            /\ Goto(t, "l136")
            /\ UNCHANGED resp
       ELSE /\ Answer(t, ExceptResponse(r.exc))
            /\ UNCHANGED loc
    /\ UNCHANGED <<globals, files, seqvars, req>>

\* lines 136-142: inverse_transform, then return {'prediction': output}
Decode(t) ==
    /\ pc[t] = "l136"
    /\ LET r == InverseTransform(stunting_encoder, loc[t].prediction_encoded) IN
       IF r.ok
       THEN Answer(t, [status |-> 200, body |-> r.val])
       ELSE Answer(t, ExceptResponse(r.exc))
    /\ UNCHANGED <<globals, files, seqvars, req, loc>>

\* the response is sent and the worker returns to the pool
Respond(t) ==
    /\ pc[t] = "done"
    /\ Goto(t, "idle")
    /\ req' = [req EXCEPT ![t] = NoData]
    /\ loc' = [loc EXCEPT ![t] = NoLocals]
    /\ resp' = [resp EXCEPT ![t] = NoResponse]
    /\ UNCHANGED <<globals, files, seqvars>>

NextRace ==
    \E t \in Threads :
        \/ \E data \in DiagonalInput : Receive(t, data)
        \/ LoadCheck(t)
        \/ LoadModel(t)
        \/ LoadScaler(t)
        \/ LoadJkEncoder(t)
        \/ LoadStuntingEncoder(t)
        \/ Encode(t)
        \/ Scale(t)
        \/ Classify(t)
        \/ Decode(t)
        \/ Respond(t)

SpecRace == Init /\ [][NextRace]_vars

\* ------------------------------------------------------------------ claims

\* the global that holds the object of an artifact file
GlobalOf(path) ==
    CASE path = BEST_MODEL -> model
      [] path = SCALER -> scaler
      [] path = JK_ENCODER -> jk_encoder
      [] path = STUNTING_ENCODER -> stunting_encoder

Empty == \A a \in ArtifactFiles : GlobalOf(a) = None
Full == \A a \in ArtifactFiles : GlobalOf(a) # None
InVocabulary(s) == \E i \in DOMAIN JkClasses : JkClasses[i] = s

\* In Spec and SpecIdem a step that leaves the files alone and changes the
\* state is a handled request: SetFiles always changes files, the handlers
\* never do.
HandledPredict == files' = files /\ last'.op = "predict"
HandledHome == files' = files /\ last'.op = "home"

\* C1 (as claimed): after a predict() whose load_models() returned False, all
\* four globals are None (so that the next call, which loads if and only if
\* model is None, starts again from the first artifact).
C1_FailedLoadLeavesEmpty ==
    (last.op = "predict" /\ ~last.loaded) => Empty

\* C2 (as claimed): whenever load_models() returned True, all four globals
\* are non-None.
C2_TrueImpliesFull ==
    (last.op = "predict" /\ last.loaded) => Full

\* C3 (as claimed): a POST /predict-stunting handled while some artifact is
\* neither loaded nor loadable is answered 500.
C3_LoadFailureIs500 ==
    [][(HandledPredict
        /\ \E a \in ArtifactFiles : GlobalOf(a) = None /\ a \notin files)
       => last'.response.status = 500]_vars

\* C4 (as claimed): with all four files loadable, a POST /predict-stunting
\* with an in-vocabulary gender loads the full bundle and is answered 200,
\* whatever load attempts failed before.
C4_NoPermanentFailure ==
    [][(HandledPredict /\ files = ArtifactFiles
        /\ InVocabulary(last'.data.jenis_kelamin))
       => (Full' /\ last'.response.status = 200)]_vars

\* C5 (as claimed): with all four files loadable, under every interleaving
\* of the worker threads no thread is in the pipeline (lines 115-136) while
\* some global is still None, and every finished request with an
\* in-vocabulary gender was answered 200.
C5_FirstLoadRaceSafe ==
    files = ArtifactFiles =>
        \A t \in Threads :
            /\ pc[t] \in {"l115", "l120", "l133", "l136"} => Full
            /\ (pc[t] = "done" /\ InVocabulary(req[t].jenis_kelamin))
                  => resp[t].status = 200

\* C6: once all four globals are populated, every handled request leaves
\* them unchanged and reads no artifact file, whatever the files are then.
C6_LoadedBundleHeld ==
    [][(Full /\ files' = files) => (globals' = globals /\ last'.io = {})]_vars

C6_Witness ==
    /\ Full
    /\ files # ArtifactFiles
    /\ last.op = "predict"
    /\ last.loaded
    /\ last.io = {}

\* C7: GET / is answered 200 in every state, reads no artifact file and
\* leaves the four globals unchanged.
C7_HomeAlways200 ==
    [][HandledHome => (/\ last'.response.status = 200
                       /\ last'.io = {}
                       /\ globals' = globals)]_vars

C7_Witness ==
    /\ last.op = "home"
    /\ last.response.status = 200
    /\ model # None
    /\ stunting_encoder = None
    /\ files # ArtifactFiles

\* C8: with all four globals populated, a request whose gender is outside
\* the encoder's vocabulary is answered 400, one whose gender is inside is
\* answered 200 (also right after a failed one), and neither changes the
\* globals.
C8_PipelineFailureIs400 ==
    [][(Full /\ HandledPredict) =>
         /\ globals' = globals
         /\ last'.loaded
         /\ ~InVocabulary(last'.data.jenis_kelamin)
               => last'.response.status = 400
         /\ InVocabulary(last'.data.jenis_kelamin)
               => last'.response.status = 200]_vars

C8_Witness ==
    /\ Full
    /\ last.op = "predict"
    /\ ~InVocabulary(last.data.jenis_kelamin)
    /\ last.response.status = 400

C10_FeatureOrder ==
    (last.op = "predict" /\ last.response.status = 200) =>
        LET d == last.data
            code == JkTransform(jk_encoder, d.jenis_kelamin).val
            s == ScalerTransform(scaler, <<d.umur, d.tinggi, d.berat>>).val
            class == ModelPredict(model, <<code, s[1], s[2], s[3]>>).val
        IN /\ InVocabulary(d.jenis_kelamin)
           /\ last.response.body
                = InverseTransform(stunting_encoder, class).val
           /\ \E i \in DOMAIN StuntingClasses :
                 last.response.body = StuntingClasses[i]

C10_Witness ==
    /\ last.op = "predict"
    /\ last.response.status = 200
    /\ last.data.umur # last.data.tinggi
    /\ last.data.tinggi # last.data.berat

====
